---- MODULE Spec2Model ----
(***************************************************************************)
(* Model of the risk aggregation and reconciliation code of damu_sb:       *)
(*   - sb/kompra.py  Cases (the legal case store), Kompra.get_risks and    *)
(*     the two risk sources, Kompra.start_schema_generation;               *)
(*   - sb/main.py    the per-applicant block of main(): risk fetch, case   *)
(*     status gate, case history fetch, the three reconciliation steps,    *)
(*     the document fill.                                                  *)
(* Every external answer (HTTP response, scraped page, status value) is an *)
(* input chosen with \E from a small set.                                  *)
(***************************************************************************)
EXTENDS Integers, Sequences, FiniteSets, TLC

VARIABLES
    today_year,     \* year of os.environ["today"], set once at import of main.py
    clock_year,     \* year datetime.now() gives at this moment (the wall clock)
    cases,          \* Cases._cases of the store driven by SpecCases
    last_call,      \* the last Cases method call: name, arguments, return value
    pc,             \* position of main() inside the per-applicant block
    risks,          \* main(): local risks (dict[str, bool])
    risks_fetched,  \* the value get_risks returned, before main() changes it
    case_status,    \* the Status returned by get_case_status
    case_history,   \* main(): local case_history, the fetched case list
    cases_fetched,  \* the value get_case_history returned
    requests,       \* the provider requests main() issued for this applicant
    saved,          \* TRUE once the conclusion of this applicant is saved
    sg_pc,          \* position inside Kompra.start_schema_generation
    sg_status,      \* start_schema_generation: local status
    sg_log,         \* the requests and sleeps of start_schema_generation, in order
    gr_args,        \* get_risks: the arguments type and max_retries
    gr_pc,          \* position inside Kompra.get_risks
    gr_attempts,    \* get_risks: calls of the wrapped fetch made so far
    gr_sleeps,      \* get_risks: sleep(time_between) calls made so far
    gr_caught,      \* get_risks: the exception caught by the last except clause
    gr_risks,       \* get_risks: local risks
    gr_result,      \* how get_risks ended: the value returned or the exception raised
    br_retry,       \* _get_risks: reads of the risk list made so far
    br_risks,       \* _get_risks: local risks (dict[str, str])
    br_any_bad,     \* whether a text of the last read had no usable answer
    api_rows,       \* _get_risks_api: the rows of the last response
    rs_pc,          \* position inside Kompra.get_reliability_summary
    rs_retry,       \* get_reliability_summary: local current_retry
    rs_synced,      \* get_reliability_summary: local risk_is_synced
    rs_data,        \* get_reliability_summary: local data, <<>> before a response
    rs_raw,         \* get_reliability_summary: local raw_summary, <<>> for None
    rs_log,         \* the requests and sleeps of get_reliability_summary, in order
    rs_result,      \* how get_reliability_summary ended
    ch_pc,          \* position inside Kompra.get_case_history
    ch_log,         \* the requests and sleeps of get_case_history, in order
    ch_result,      \* how get_case_history ended
    tk_pc,          \* "done" at the moment the token accessor has ended
    tk_now,         \* time.time(), in seconds
    tk_token,       \* Kompra._token, <<>> for None
    tk_cache,       \* the token cache file
    tk_log,         \* the oauth/token requests of the last accessor call
    tk_result,      \* how the last call of the token accessor ended
    crm_pc,         \* "open" inside the with block of the CRM, "closed" after
    crm_logged_in,  \* CRM.is_logged_in
    crm_last,       \* the last CRM operation: name, flag on entry, its requests
    crm_login,      \* how the most recent login request ended
    crm_failed,     \* TRUE when a request failed since the most recent login
    crm_files       \* download_vypiskas: rows still to download

StoreVars == <<cases, last_call>>
MainVars == <<pc, risks, risks_fetched, case_status, case_history,
              cases_fetched, requests, saved>>
SchemaVars == <<sg_pc, sg_status, sg_log>>
RisksVars == <<gr_args, gr_pc, gr_attempts, gr_sleeps, gr_caught, gr_risks,
               gr_result, br_retry, br_risks, br_any_bad, api_rows>>

SummaryVars == <<rs_pc, rs_retry, rs_synced, rs_data, rs_raw, rs_log, rs_result>>

HistoryVars == <<ch_pc, ch_log, ch_result>>
TokenVars == <<tk_pc, tk_now, tk_token, tk_cache, tk_log, tk_result>>
CrmVars == <<crm_pc, crm_logged_in, crm_last, crm_login, crm_failed, crm_files>>
AuxVars == <<HistoryVars, TokenVars, CrmVars>>

vars == <<today_year, clock_year, StoreVars, MainVars, SchemaVars, RisksVars,
          SummaryVars, AuxVars>>

NotStore == <<today_year, clock_year, MainVars, SchemaVars, RisksVars, SummaryVars,
    AuxVars>>
NotMain == <<today_year, clock_year, StoreVars, SchemaVars, RisksVars, SummaryVars,
    AuxVars>>
NotSchema == <<today_year, clock_year, StoreVars, MainVars, RisksVars, SummaryVars,
    AuxVars>>
NotRisks == <<today_year, clock_year, StoreVars, MainVars, SchemaVars, SummaryVars,
    AuxVars>>
NotSummary == <<today_year, clock_year, StoreVars, MainVars, SchemaVars, RisksVars,
    AuxVars>>

(***************************************************************************)
(* Bounds of the model.                                                    *)
(***************************************************************************)
MaxCases == 2
MaxDeltaArg == 4

BaseYear == 2025
ReferenceYears == {BaseYear, BaseYear + 1}
\* years a case row can carry: 5, 3 and 1 years back, 4 years ahead of BaseYear
CaseYears == {BaseYear - 5, BaseYear - 3, BaseYear - 1, BaseYear + 4}

(***************************************************************************)
(* kompra.py: Status, CaseType, Case                                       *)
(***************************************************************************)
Status == {"YES", "NO", "SYNC", "INIT"}

CIVIL == 1
CRIMINAL == 2
ADMIN == 3
CaseType == {CIVIL, CRIMINAL, ADMIN}

\* a Case, reduced to the two fields the store and main() read
Case == [type_id : CaseType, year : CaseYears]

RECURSIVE SeqsUpTo(_, _)
SeqsUpTo(S, n) ==
    IF n = 0 THEN {<<>>}
    ELSE LET shorter == SeqsUpTo(S, n - 1)
         IN  shorter \cup {Append(s, x) : s \in {t \in shorter : Len(t) = n - 1}, x \in S}

CaseLists == SeqsUpTo(Case, MaxCases)

Abs(x) == IF x < 0 THEN -x ELSE x

\* Python any() over a list of booleans, left to right
RECURSIVE PyAny(_)
PyAny(bs) == IF bs = <<>> THEN FALSE
           ELSE IF Head(bs) THEN TRUE ELSE PyAny(Tail(bs))

(***************************************************************************)
(* Python dict[str, bool] as a function on the set of its keys              *)
(***************************************************************************)
EmptyDict == <<>>
Keys(d) == DOMAIN d
\* an assignment that rebinds the dict to the one entry
DictSetOnly(d, k, v) == [x \in {k} |-> v]
DictSet(d, k, v) == [x \in (DOMAIN d) \cup {k} |-> IF x = k THEN v ELSE d[x]]
DictPop(d, k) == [x \in (DOMAIN d) \ {k} |-> d[x]]

\* the three risk names main() reads or writes, and one it never touches
ADM_RISK == "Administrativnye pravonarusheniya"
CRIM_RISK == "Ugolovnye razbiratelstva"
CIV_RISK == "Grazhdanskie razbiratelstva"
TAX_RISK == "Nalogovaya zadolzhennost"
RiskNames == {ADM_RISK, CRIM_RISK, CIV_RISK, TAX_RISK}
RiskDicts == UNION {[D -> BOOLEAN] : D \in SUBSET RiskNames}

(***************************************************************************)
(* kompra.py: class Cases                                                  *)
(***************************************************************************)
DefaultMaxDelta == 3

\* has_cases taking the year from datetime.now() at the call
has_cases_wall_clock(self, case_type, max_delta) ==
    IF case_type # CRIMINAL
    THEN LET ofType(c) == c.type_id = case_type
             sel == SelectSeq(self, ofType)
         IN  PyAny([i \in DOMAIN sel |-> Abs(clock_year - sel[i].year) <= max_delta])
    ELSE PyAny([i \in DOMAIN self |-> self[i].type_id = case_type])

has_cases_signed(self, case_type, max_delta) ==
    IF case_type # CRIMINAL
    THEN LET ofType(c) == c.type_id = case_type
             sel == SelectSeq(self, ofType)
         IN  PyAny([i \in DOMAIN sel |-> today_year - sel[i].year <= max_delta])
    ELSE PyAny([i \in DOMAIN self |-> self[i].type_id = case_type])

\* has_cases with the age window applied to every kind, CRIMINAL included
has_cases_all_windowed(self, case_type, max_delta) ==
    LET ofType(c) == c.type_id = case_type
        sel == SelectSeq(self, ofType)
    IN  PyAny([i \in DOMAIN sel |-> Abs(today_year - sel[i].year) <= max_delta])

has_cases(self, case_type, max_delta) ==
    IF case_type # CRIMINAL
    THEN LET ofType(c) == c.type_id = case_type
             sel == SelectSeq(self, ofType)
         IN  PyAny([i \in DOMAIN sel |-> Abs(today_year - sel[i].year) <= max_delta])
    ELSE PyAny([i \in DOMAIN self |-> self[i].type_id = case_type])

\* remove_cases dropping only the first case of the kind (list.remove)
remove_cases_first(self, case_type) ==
    LET hits == {i \in DOMAIN self : self[i].type_id = case_type}
    IN  IF hits = {} THEN self
        ELSE LET first == CHOOSE i \in hits : \A j \in hits : i <= j
             IN  SubSeq(self, 1, first - 1) \o SubSeq(self, first + 1, Len(self))

\* remove_cases building the kept list back to front
remove_cases_reversed(self, case_type) ==
    LET other(c) == c.type_id # case_type
        kept == SelectSeq(self, other)
    IN  [i \in 1..Len(kept) |-> kept[Len(kept) + 1 - i]]

remove_cases(self, case_type) ==
    LET other(c) == c.type_id # case_type
    IN  SelectSeq(self, other)

NoCall == [op |-> "none"]

\* Cases.append(case)
CasesAppend ==
    /\ Len(cases) < MaxCases
    /\ \E c \in Case :
          /\ cases' = Append(cases, c)
          /\ last_call' = [op |-> "append", case |-> c]
    /\ UNCHANGED NotStore

\* Cases.has_cases(case_type, max_delta)
CasesHasCases ==
    /\ \E t \in CaseType, d \in 0..MaxDeltaArg :
          last_call' = [op |-> "has_cases", case_type |-> t, max_delta |-> d,
                        result |-> has_cases(cases, t, d)]
    /\ UNCHANGED <<cases, NotStore>>

\* Cases.has_cases(case_type): max_delta takes its default
CasesHasCasesDefault ==
    /\ \E t \in CaseType :
          last_call' = [op |-> "has_cases", case_type |-> t,
                        max_delta |-> DefaultMaxDelta,
                        result |-> has_cases(cases, t, DefaultMaxDelta)]
    /\ UNCHANGED <<cases, NotStore>>

\* Cases.remove_cases(case_type)
CasesRemoveCases ==
    /\ \E t \in CaseType :
          /\ cases' = remove_cases(cases, t)
          /\ last_call' = [op |-> "remove_cases", case_type |-> t, before |-> cases]
    /\ UNCHANGED NotStore

MainIdle ==
    /\ pc = "idle"
    /\ risks = <<>>
    /\ risks_fetched = <<>>
    /\ case_status = "none"
    /\ case_history = <<>>
    /\ cases_fetched = <<>>
    /\ requests = <<>>
    /\ saved = FALSE

StoreIdle ==
    /\ cases = <<>>
    /\ last_call = NoCall

None == "None"

SchemaIdle ==
    /\ sg_pc = "idle"
    /\ sg_status = None
    /\ sg_log = <<>>

RisksIdle ==
    /\ gr_args = None
    /\ gr_pc = "idle"
    /\ gr_attempts = 0
    /\ gr_sleeps = 0
    /\ gr_caught = None
    /\ gr_risks = None
    /\ gr_result = None
    /\ br_retry = 0
    /\ br_risks = <<>>
    /\ br_any_bad = FALSE
    /\ api_rows = <<>>

SummaryIdle ==
    /\ rs_pc = "idle"
    /\ rs_retry = 0
    /\ rs_synced = FALSE
    /\ rs_data = <<>>
    /\ rs_raw = <<>>
    /\ rs_log = <<>>
    /\ rs_result = None

HistoryIdle ==
    /\ ch_pc = "idle"
    /\ ch_log = <<>>
    /\ ch_result = None

NoFile == [exists |-> FALSE, content |-> <<>>]

TokenIdle ==
    /\ tk_pc = "idle"
    /\ tk_now = 0
    /\ tk_token = <<>>
    /\ tk_cache = NoFile
    /\ tk_log = <<>>
    /\ tk_result = None

NoOperation == [op |-> "none", entered_logged_in |-> FALSE, log |-> <<>>]

CrmIdle ==
    /\ crm_pc = "idle"
    /\ crm_logged_in = FALSE
    /\ crm_last = NoOperation
    /\ crm_login = "none"
    /\ crm_failed = FALSE
    /\ crm_files = 0

AuxIdle == HistoryIdle /\ TokenIdle /\ CrmIdle

NotHistory == <<today_year, clock_year, StoreVars, MainVars, SchemaVars,
    RisksVars, SummaryVars, TokenVars, CrmVars>>
NotToken == <<today_year, clock_year, StoreVars, MainVars, SchemaVars,
    RisksVars, SummaryVars, HistoryVars, CrmVars>>
NotCrm == <<today_year, clock_year, StoreVars, MainVars, SchemaVars,
    RisksVars, SummaryVars, HistoryVars, TokenVars>>

InitCases ==
    /\ today_year \in ReferenceYears
    /\ clock_year = today_year
    /\ cases = <<>>
    /\ last_call = NoCall
    /\ MainIdle
    /\ SchemaIdle
    /\ RisksIdle
    /\ SummaryIdle
    /\ AuxIdle

NextCases ==
    \/ CasesAppend
    \/ CasesHasCases
    \/ CasesHasCasesDefault
    \/ CasesRemoveCases

SpecCases == InitCases /\ [][NextCases]_vars

(***************************************************************************)
(* main.py: the block of main() for one applicant (a TOO participant).     *)
(* case_history is the case list of the fetched history, the "content" the *)
(* block iterates.  The block never calls Cases.remove_cases.              *)
(***************************************************************************)
\* Python truth value of a str (Status is a StrEnum)
Truthy(str) == str # ""

\* lines 459-472 with an exclusive window
ReconcileAdminExclusive(r, content) ==
    IF ADM_RISK \in Keys(r)
    THEN LET isAdmin(c) == c.type_id = 3
             sel == SelectSeq(content, isAdmin)
         IN  IF PyAny([i \in DOMAIN sel |-> (today_year - sel[i].year) < 3])
             THEN r
             ELSE DictPop(r, ADM_RISK)
    ELSE r

\* lines 459-472
ReconcileAdmin(r, content) ==
    IF ADM_RISK \in Keys(r)
    THEN LET isAdmin(c) == c.type_id = 3
             sel == SelectSeq(content, isAdmin)
         IN  IF PyAny([i \in DOMAIN sel |-> (today_year - sel[i].year) <= 3])
             THEN r
             ELSE DictPop(r, ADM_RISK)
    ELSE r

\* lines 474-477 setting the flag only when the provider reported it
ReconcileCriminalIfReported(r, content) ==
    IF PyAny([i \in DOMAIN content |-> content[i].type_id = 2]) /\ CRIM_RISK \in Keys(r)
    THEN DictSet(r, CRIM_RISK, TRUE)
    ELSE r

\* lines 474-477 rebinding risks to a dict of the one flag
ReconcileCriminalRebind(r, content) ==
    IF PyAny([i \in DOMAIN content |-> content[i].type_id = 2])
    THEN DictSetOnly(r, CRIM_RISK, TRUE)
    ELSE r

\* lines 474-477
ReconcileCriminal(r, content) ==
    IF PyAny([i \in DOMAIN content |-> content[i].type_id = 2])
    THEN DictSet(r, CRIM_RISK, TRUE)
    ELSE r

\* lines 479-488 negating a flag that is already there
ReconcileCivilFlip(r, content) ==
    LET isCivil(c) == c.type_id = 1
        sel == SelectSeq(content, isCivil)
    IN  IF PyAny([i \in DOMAIN sel |-> (today_year - sel[i].year) <= 3])
        THEN DictSet(r, CIV_RISK, IF CIV_RISK \in Keys(r) THEN ~r[CIV_RISK] ELSE TRUE)
        ELSE r

\* lines 479-488
ReconcileCivil(r, content) ==
    LET isCivil(c) == c.type_id = 1
        sel == SelectSeq(content, isCivil)
    IN  IF PyAny([i \in DOMAIN sel |-> (today_year - sel[i].year) <= 3])
        THEN DictSet(r, CIV_RISK, TRUE)
        ELSE r

\* lines 459-488, in program order
Reconcile(r, content) ==
    ReconcileCivil(ReconcileCriminal(ReconcileAdmin(r, content), content), content)

\* the exception is caught and logged, the block goes on to the document fill
AbortSwallowed == /\ pc' = "fill"
                  /\ UNCHANGED <<risks, risks_fetched, case_status, case_history,
                                 cases_fetched, saved>>

\* an exception leaves main(): the run ends, nothing more happens
Abort == /\ pc' = "aborted"
         /\ UNCHANGED <<risks, risks_fetched, case_status, case_history,
                        cases_fetched, saved>>

\* line 445: enterprise = kompra.get_enterprise(bin)
MainGetEnterprise ==
    /\ pc = "get_enterprise"
    /\ requests' = Append(requests, "company")
    /\ \/ /\ pc' = "get_owner"
          /\ UNCHANGED <<risks, risks_fetched, case_status, case_history,
                         cases_fetched, saved>>
       \/ Abort
    /\ UNCHANGED NotMain

\* line 448: owner = kompra.get_owner(bin)
MainGetOwner ==
    /\ pc = "get_owner"
    /\ requests' = Append(requests, "management")
    /\ \/ /\ pc' = "get_risks"
          /\ UNCHANGED <<risks, risks_fetched, case_status, case_history,
                         cases_fetched, saved>>
       \/ Abort
    /\ UNCHANGED NotMain

\* line 451 as risks.update(kompra.get_risks(iin=bin)) on the dict of the pass before
MainGetRisksUpdate ==
    /\ pc = "get_risks"
    /\ requests' = Append(requests, "risks")
    /\ \/ \E r \in RiskDicts :
            /\ risks' = [k \in Keys(risks) \cup Keys(r) |->
                            IF k \in Keys(r) THEN r[k] ELSE risks[k]]
            /\ risks_fetched' = r
            /\ pc' = "get_case_status"
            /\ UNCHANGED <<case_status, case_history, cases_fetched, saved>>
       \/ Abort
    /\ UNCHANGED NotMain

\* line 451: risks = kompra.get_risks(iin=bin)
MainGetRisks ==
    /\ pc = "get_risks"
    /\ requests' = Append(requests, "risks")
    /\ \/ \E r \in RiskDicts :
            /\ risks' = r
            /\ risks_fetched' = r
            /\ pc' = "get_case_status"
            /\ UNCHANGED <<case_status, case_history, cases_fetched, saved>>
       \/ Abort
    /\ UNCHANGED NotMain

\* line 455: if kompra.get_case_status(bin):
MainGetCaseStatus ==
    /\ pc = "get_case_status"
    /\ requests' = Append(requests, "cases/status")
    /\ \/ \E s \in Status :
            /\ case_status' = s
            /\ pc' = IF Truthy(s) THEN "get_case_history" ELSE "fill"
            /\ UNCHANGED <<risks, risks_fetched, case_history, cases_fetched, saved>>
       \/ Abort
    /\ UNCHANGED NotMain

\* line 456 and kompra.py 1045-1082: one POST, a second one after a failed first
MainGetCaseHistory ==
    /\ pc = "get_case_history"
    /\ \/ \E content \in CaseLists :
            /\ requests' = Append(requests, "cases/list")
            /\ case_history' = content
            /\ cases_fetched' = content
            /\ pc' = "reconcile"
            /\ UNCHANGED <<risks, risks_fetched, case_status, saved>>
       \/ \E content \in CaseLists :
            /\ requests' = requests \o <<"cases/list", "cases/list">>
            /\ case_history' = content
            /\ cases_fetched' = content
            /\ pc' = "reconcile"
            /\ UNCHANGED <<risks, risks_fetched, case_status, saved>>
       \/ /\ requests' = requests \o <<"cases/list", "cases/list">>
          /\ Abort
    /\ UNCHANGED NotMain

\* lines 459-488 with del risks[...] in place of the guarded pop: KeyError
\* leaves main() when the flag is not in the dict
MainReconcileStrict ==
    /\ pc = "reconcile"
    /\ IF ADM_RISK \in Keys(risks)
       THEN /\ risks' = Reconcile(risks, case_history)
            /\ pc' = "fill"
       ELSE /\ pc' = "aborted"
            /\ UNCHANGED risks
    /\ UNCHANGED <<risks_fetched, case_status, case_history, cases_fetched,
                   requests, saved>>
    /\ UNCHANGED NotMain

\* lines 459-488
MainReconcile ==
    /\ pc = "reconcile"
    /\ risks' = Reconcile(risks, case_history)
    /\ pc' = "fill"
    /\ UNCHANGED <<risks_fetched, case_status, case_history, cases_fetched,
                   requests, saved>>
    /\ UNCHANGED NotMain

\* lines 492-502: fill_conclusion_too(...) ends with doc.save
MainFill ==
    /\ pc = "fill"
    /\ saved' = TRUE
    /\ pc' = "done"
    /\ UNCHANGED <<risks, risks_fetched, case_status, case_history,
                   cases_fetched, requests>>
    /\ UNCHANGED NotMain

InitMain ==
    /\ today_year = BaseYear
    /\ clock_year = today_year
    /\ StoreIdle
    /\ pc = "get_enterprise"
    /\ risks = EmptyDict
    /\ risks_fetched = EmptyDict
    /\ case_status = "none"
    /\ case_history = <<>>
    /\ cases_fetched = <<>>
    /\ requests = <<>>
    /\ saved = FALSE
    /\ SchemaIdle
    /\ RisksIdle
    /\ SummaryIdle
    /\ AuxIdle

NextMain ==
    \/ MainGetEnterprise
    \/ MainGetOwner
    \/ MainGetRisks
    \/ MainGetCaseStatus
    \/ MainGetCaseHistory
    \/ MainReconcile
    \/ MainFill

SpecMain == InitMain /\ [][NextMain]_vars

\* the block from line 459 on, entered with every fetched signal set and case
\* list: the states of SpecMain in which the case history has just arrived
InitReconcile ==
    /\ today_year = BaseYear
    /\ clock_year = today_year
    /\ StoreIdle
    /\ pc = "reconcile"
    /\ \E r \in RiskDicts :
          /\ risks = r
          /\ risks_fetched = r
    /\ case_status = "YES"
    /\ \E content \in CaseLists :
          /\ case_history = content
          /\ cases_fetched = content
    /\ requests = <<"company", "management", "risks", "cases/status", "cases/list">>
    /\ saved = FALSE
    /\ SchemaIdle
    /\ RisksIdle
    /\ SummaryIdle
    /\ AuxIdle

NextReconcile ==
    \/ MainReconcile
    \/ MainFill

SpecReconcile == InitReconcile /\ [][NextReconcile]_vars

(***************************************************************************)
(* kompra.py: Kompra.start_schema_generation and get_relation_status.      *)
(* sg_log records every request with the status it answered and every      *)
(* sleep, in order.                                                        *)
(***************************************************************************)
MaxPolls == 3

Trigger(s) == [event |-> "relations/start", status |-> s]
Poll(s) == [event |-> "relations/status", status |-> s]
Sleep == [event |-> "sleep", status |-> None]

\* lines 868-885: the trigger request and the parse of its status
SchemaStart ==
    /\ sg_pc = "start"
    /\ \/ \E s \in Status :
            /\ sg_log' = Append(sg_log, Trigger(s))
            /\ sg_status' = s
            /\ sg_pc' = "while"
       \/ /\ sg_log' = Append(sg_log, Trigger(None))
          /\ sg_pc' \in {"DataNotFetchedRequestError", "ValueError"}
          /\ UNCHANGED sg_status
    /\ UNCHANGED NotSchema

\* lines 886-892: one pass of the while loop, get_relation_status then sleep(5)
SchemaPoll ==
    /\ sg_pc = "while"
    /\ sg_status # "YES"
    /\ Len(SelectSeq(sg_log, LAMBDA e : e.event = "relations/status")) < MaxPolls
    /\ \/ \E s \in Status :
            /\ sg_status' = s
            /\ sg_log' = sg_log \o <<Poll(s), Sleep>>
            /\ UNCHANGED sg_pc
       \/ /\ sg_log' = Append(sg_log, Poll(None))
          /\ sg_pc' \in {"DataNotFetchedRequestError", "ValueError"}
          /\ UNCHANGED sg_status
    /\ UNCHANGED NotSchema

\* the loop giving up after two polls, whatever the status
SchemaReturnTimeout ==
    /\ sg_pc = "while"
    /\ \/ sg_status = "YES"
       \/ Len(SelectSeq(sg_log, LAMBDA e : e.event = "relations/status")) >= 2
    /\ sg_pc' = "returned"
    /\ UNCHANGED <<sg_status, sg_log>>
    /\ UNCHANGED NotSchema

\* lines 886 and 894: the loop test fails, return status
SchemaReturn ==
    /\ sg_pc = "while"
    /\ sg_status = "YES"
    /\ sg_pc' = "returned"
    /\ UNCHANGED <<sg_status, sg_log>>
    /\ UNCHANGED NotSchema

InitSchema ==
    /\ today_year = BaseYear
    /\ clock_year = today_year
    /\ StoreIdle
    /\ MainIdle
    /\ RisksIdle
    /\ SummaryIdle
    /\ AuxIdle
    /\ sg_pc = "start"
    /\ sg_status = None
    /\ sg_log = <<>>

NextSchema ==
    \/ SchemaStart
    \/ SchemaPoll
    \/ SchemaReturn

SpecSchema == InitSchema /\ [][NextSchema]_vars

\* the interpreter goes on from the loop test to the return statement
SpecSchemaLive == InitSchema /\ [][NextSchema]_vars /\ WF_vars(SchemaReturn)

(***************************************************************************)
(* kompra.py: Kompra.get_risks and its two sources, _get_risks_api and     *)
(* _get_risks (the browser scrape).                                        *)
(***************************************************************************)
MaxRetriesArg == 2
MaxRows == 2
DefaultMaxRetries == 5
BrowserReads == 5

Return(v) == [kind |-> "return", value |-> v]
Raise(e) == [kind |-> "raise", value |-> e]

\* Python "not x" for x of type dict | None
Falsy(x) == x = None \/ x = EmptyDict

ProviderNames == {ADM_RISK, TAX_RISK}

\* a row of /api/v2/reliability-list: the risk type name and the status text
ApiRow == [name : ProviderNames, status : Status \cup {"UNKNOWN"}]
ApiResponses == SeqsUpTo(ApiRow, MaxRows)

\* lines 781-785: the dict comprehension over the validated rows, in row order
RECURSIVE ApiDict(_, _)
ApiDict(rows, acc) ==
    IF rows = <<>> THEN acc
    ELSE LET row == Head(rows)
             status == (row.status = "YES")
         IN  IF status THEN ApiDict(Tail(rows), DictSet(acc, row.name, status))
             ELSE ApiDict(Tail(rows), acc)

\* lines 771-787: RawRiskAPI(**row) raises on a status that is no Status
get_risks_api(rows) ==
    IF \E i \in DOMAIN rows : rows[i].status \notin Status
    THEN Raise("ValidationError")
    ELSE Return(ApiDict(rows, EmptyDict))

\* a scraped header text: the risk name, then two blanks and the answer text,
\* or the risk name alone (value "")
BrowserValues == {"", "DA", "NET", "SERVIS NEDOSTUPEN"}
BrowserText == [key : ProviderNames, value : BrowserValues]
BrowserRaw == SeqsUpTo(BrowserText, MaxRows)

\* line 738: f"{text.strip()}  ".split("  ", maxsplit=1); the value keeps the
\* two appended blanks whenever the text had an answer (pad counts them)
SplitText(text) ==
    [key |-> text.key,
     value |-> [s |-> text.value, pad |-> IF text.value = "" THEN 0 ELSE 2]]

\* str.strip()
Strip(str) == str.s

\* line 740: not value or value == "СЕРВИС НЕДОСТУПЕН"
Malformed(value) ==
    (value.s = "" /\ value.pad = 0) \/ (value.s = "SERVIS NEDOSTUPEN" /\ value.pad = 0)

\* A scraped text with no answer, or with the service-unavailable text.
EntryMalformed(text) == text.value \in {"", "SERVIS NEDOSTUPEN"}

\* lines 737-741: the inner for loop over one read, in order
RECURSIVE ReadEntries(_, _)
ReadEntries(raw, acc) ==
    IF raw = <<>> THEN acc
    ELSE LET kv == SplitText(Head(raw))
         IN  ReadEntries(Tail(raw),
                 [risks |-> DictSet(acc.risks, kv.key, Strip(kv.value)),
                  has_malformed |-> Malformed(kv.value)])

\* lines 747-751
BrowserRes(r) ==
    LET kept == {k \in Keys(r) : r[k] # "" /\ r[k] # "SERVIS NEDOSTUPEN"}
    IN  [k \in kept |-> r[k] = "DA"]

\* lines 811-814 returning an empty mapping in place of the error
AfterLoopDefault(r) == Return(EmptyDict)

\* lines 811-814
AfterLoop(r) == IF Falsy(r) THEN Raise("ValueError") ELSE Return(r)

\* the except clause going on to the next attempt without the sleep
CaughtNoSleep ==
    /\ gr_caught' = "ServiceNotAvailableError"
    /\ UNCHANGED <<gr_sleeps, gr_pc, gr_risks, gr_result>>

\* line 804-809: except ServiceNotAvailableError: sleep(time_between); continue
Caught ==
    /\ gr_caught' = "ServiceNotAvailableError"
    /\ gr_sleeps' = gr_sleeps + 1
    /\ UNCHANGED <<gr_pc, gr_risks, gr_result>>

\* lines 800-809 with type "api": one pass of the for loop around _get_risks_api.
\* ServiceNotAvailableError (kompra.py 26) is the failure the except clause names.
GetRisksApi ==
    /\ gr_pc = "for"
    /\ gr_args.type = "api"
    /\ gr_attempts < gr_args.max_retries
    /\ gr_attempts' = gr_attempts + 1
    /\ \/ \E rows \in ApiResponses :
            LET out == get_risks_api(rows)
            IN  /\ gr_result' = out
                /\ gr_risks' = IF out.kind = "return" THEN out.value ELSE gr_risks
                /\ api_rows' = rows
                /\ gr_pc' = "done"
                /\ UNCHANGED <<gr_caught, gr_sleeps>>
       \/ /\ gr_result' = Raise("DataNotFetchedRequestError")
          /\ gr_pc' = "done"
          /\ UNCHANGED <<gr_caught, gr_sleeps, gr_risks, api_rows>>
       \/ /\ Caught
          /\ UNCHANGED api_rows
    /\ UNCHANGED <<gr_args, br_retry, br_risks, br_any_bad>>
    /\ UNCHANGED NotRisks

\* lines 800-809 with type "browser": the for loop enters _get_risks, lines 706-729
GetRisksBrowserOpen ==
    /\ gr_pc = "for"
    /\ gr_args.type = "browser"
    /\ gr_attempts < gr_args.max_retries
    /\ gr_attempts' = gr_attempts + 1
    /\ \/ /\ gr_pc' = "browser_for"
          /\ br_retry' = 0
          /\ br_risks' = EmptyDict
          /\ UNCHANGED <<gr_caught, gr_sleeps, gr_risks, gr_result>>
       \/ /\ gr_result' = Raise("SessionNotAuthenticatedError")
          /\ gr_pc' = "done"
          /\ UNCHANGED <<gr_caught, gr_sleeps, gr_risks, br_retry, br_risks>>
       \/ /\ Caught
          /\ UNCHANGED <<br_retry, br_risks>>
    /\ UNCHANGED <<gr_args, br_any_bad, api_rows>>
    /\ UNCHANGED NotRisks

\* lines 730-756: one read of the risk list; after the last read the result is
\* built and returned through get_risks (line 803)
GetRisksBrowserRead ==
    /\ gr_pc = "browser_for"
    /\ br_retry < BrowserReads
    /\ \E raw \in BrowserRaw :
          LET read == ReadEntries(raw, [risks |-> br_risks, has_malformed |-> FALSE])
              res == BrowserRes(read.risks)
          IN  /\ br_risks' = read.risks
              /\ br_any_bad' = \E i \in DOMAIN raw : EntryMalformed(raw[i])
              /\ br_retry' = br_retry + 1
              /\ IF ~read.has_malformed \/ br_retry + 1 = BrowserReads
                 THEN /\ gr_risks' = res
                      /\ gr_result' = Return(res)
                      /\ gr_pc' = "done"
                 ELSE UNCHANGED <<gr_risks, gr_result, gr_pc>>
    /\ UNCHANGED <<gr_args, gr_attempts, gr_sleeps, gr_caught, api_rows>>
    /\ UNCHANGED NotRisks

\* lines 811-814: the for loop is exhausted
GetRisksAfterLoop ==
    /\ gr_pc = "for"
    /\ gr_attempts >= gr_args.max_retries
    /\ gr_result' = AfterLoop(gr_risks)
    /\ gr_pc' = "done"
    /\ UNCHANGED <<gr_args, gr_attempts, gr_sleeps, gr_caught, gr_risks,
                   br_retry, br_risks, br_any_bad, api_rows>>
    /\ UNCHANGED NotRisks

InitRisks ==
    /\ today_year = BaseYear
    /\ clock_year = today_year
    /\ StoreIdle
    /\ MainIdle
    /\ SchemaIdle
    /\ SummaryIdle
    /\ AuxIdle
    /\ gr_args \in [type : {"api", "browser"},
                    max_retries : (0..MaxRetriesArg) \cup {DefaultMaxRetries}]
    /\ gr_pc = "for"
    /\ gr_attempts = 0
    /\ gr_sleeps = 0
    /\ gr_caught = None
    /\ gr_risks = None
    /\ gr_result = None
    /\ br_retry = 0
    /\ br_risks = EmptyDict
    /\ br_any_bad = FALSE
    /\ api_rows = <<>>

NextRisks ==
    \/ GetRisksApi
    \/ GetRisksBrowserOpen
    \/ GetRisksBrowserRead
    \/ GetRisksAfterLoop

SpecRisks == InitRisks /\ [][NextRisks]_vars

(***************************************************************************)
(* kompra.py: Kompra.get_reliability_summary and RawSummary.               *)
(* A tag text is the sequence of its words, joined by single blanks.       *)
(***************************************************************************)
SummaryRetries == 5

TagTax == [tag |-> <<"Nalogovaya", "zadolzhennost">>]
TagHigh == [tag |-> <<"Vysokaya", "stepen", "riska">>]
TagBare == [tag |-> <<"stepen", "riska">>]
TagArrest == [tag |-> <<"Arest", "scheta">>]
TagGood == [tag |-> <<"Net", "zadolzhennosti">>]

\* response bodies of /company/{iin}/reliability_summary
SummaryResponses ==
    [risk : [status : Status \cup {"UNKNOWN"},
             data : {<<>>, <<TagTax, TagHigh>>}],
     attention : [status : {"YES", "UNKNOWN"},
                  data : {<<TagBare>>, <<TagArrest, TagTax>>}],
     positive : [status : {"NO", "UNKNOWN"},
                 data : {<<TagGood>>}]]

\* RawSummary(**data) accepting any status text
RawSummaryLenient(data) == Return(data)

\* lines 175-190: RawSummary(**data); the validator of each Record raises on a
\* status that is no Status
RawSummary(data) ==
    IF \/ data.risk.status \notin Status
       \/ data.attention.status \notin Status
       \/ data.positive.status \notin Status
    THEN Raise("ValidationError")
    ELSE Return(data)

\* " степень риска" in tag.tag: the two words, with a blank before them
HasQualifier(words) ==
    \E i \in 2..(Len(words) - 1) : words[i] = "stepen" /\ words[i + 1] = "riska"

\* lines 1008-1019 without the two if clauses
SummaryTagsUnfiltered(raw) ==
    {raw.risk.data[i].tag : i \in DOMAIN raw.risk.data}
    \cup {raw.attention.data[i].tag : i \in DOMAIN raw.attention.data}

\* lines 1008-1019
SummaryTags(raw) ==
    {raw.risk.data[i].tag :
        i \in {j \in DOMAIN raw.risk.data : ~HasQualifier(raw.risk.data[j].tag)}}
    \cup
    {raw.attention.data[i].tag :
        i \in {j \in DOMAIN raw.attention.data : ~HasQualifier(raw.attention.data[j].tag)}}

\* line 1001 without the test of the risk status
BreakTestCapOnly(status, current_retry) == current_retry >= SummaryRetries

\* line 1001
BreakTest(status, current_retry) ==
    status = "YES" \/ current_retry >= SummaryRetries

SummaryFetch(s) == [event |-> "reliability_summary", status |-> s]

\* lines 976-1004: one pass of the while loop
SummaryPass ==
    /\ rs_pc = "while"
    /\ ~rs_synced \/ rs_retry < SummaryRetries
    /\ \/ \E data \in SummaryResponses :
            LET parsed == RawSummary(data)
            IN  /\ rs_data' = <<data>>
                /\ IF parsed.kind = "raise"
                   THEN /\ rs_raw' = <<>>
                        /\ rs_result' = parsed
                        /\ rs_pc' = "done"
                        /\ rs_log' = Append(rs_log, SummaryFetch(data.risk.status))
                        /\ UNCHANGED <<rs_retry, rs_synced>>
                   ELSE /\ rs_raw' = <<parsed.value>>
                        /\ rs_retry' = rs_retry + 1
                        /\ UNCHANGED rs_result
                        /\ IF BreakTest(parsed.value.risk.status, rs_retry + 1)
                           THEN /\ rs_synced' = TRUE
                                /\ rs_pc' = "after_while"
                                /\ rs_log' = Append(rs_log, SummaryFetch(data.risk.status))
                           ELSE /\ rs_log' = rs_log \o <<SummaryFetch(data.risk.status), Sleep>>
                                /\ UNCHANGED <<rs_synced, rs_pc>>
       \/ /\ rs_data' = <<>>
          /\ rs_raw' = <<>>
          /\ rs_result' \in {Raise("DataNotFetchedRequestError"), Raise("DataNotFetchedError")}
          /\ rs_pc' = "done"
          /\ rs_log' = Append(rs_log, SummaryFetch(None))
          /\ UNCHANGED <<rs_retry, rs_synced>>
    /\ UNCHANGED NotSummary

\* lines 1006-1021
SummaryReturn ==
    /\ rs_pc = "after_while"
    /\ rs_result' = IF rs_raw = <<>> THEN Raise("AssertionError")
                    ELSE Return(SummaryTags(rs_raw[1]))
    /\ rs_pc' = "done"
    /\ UNCHANGED <<rs_retry, rs_synced, rs_data, rs_raw, rs_log>>
    /\ UNCHANGED NotSummary

InitSummary ==
    /\ today_year = BaseYear
    /\ clock_year = today_year
    /\ StoreIdle
    /\ MainIdle
    /\ SchemaIdle
    /\ RisksIdle
    /\ AuxIdle
    /\ rs_pc = "while"
    /\ rs_retry = 0
    /\ rs_synced = FALSE
    /\ rs_data = <<>>
    /\ rs_raw = <<>>
    /\ rs_log = <<>>
    /\ rs_result = None

NextSummary ==
    \/ SummaryPass
    \/ SummaryReturn

\* every fetch returns and the interpreter goes on
SpecSummary ==
    InitSummary /\ [][NextSummary]_vars /\ WF_<<rs_pc, rs_retry>>(NextSummary)

(***************************************************************************)
(* main.py 421-502: the loop over the files of the activities.  A later    *)
(* pass of the loop body starts with the locals risks and case_history     *)
(* still bound to what the pass before left in them.                       *)
(***************************************************************************)
\* fetched data of the applicants after which the model follows the loop into
\* the next pass (after any other applicant the behaviour ends)
EarlierApplicants ==
    {[r |-> (ADM_RISK :> TRUE) @@ (TAX_RISK :> TRUE),
      c |-> <<[type_id |-> ADMIN, year |-> BaseYear - 1],
              [type_id |-> CRIMINAL, year |-> BaseYear - 5]>>],
     [r |-> EmptyDict,
      c |-> <<[type_id |-> CIVIL, year |-> BaseYear - 1]>>]}

\* lines 421-424 after line 502: the for loop takes the next file; the locals of
\* main() stay bound, what the model records per applicant starts anew
MainNextApplicant ==
    /\ pc = "done"
    /\ [r |-> risks_fetched, c |-> cases_fetched] \in EarlierApplicants
    /\ pc' = "get_enterprise"
    /\ requests' = <<>>
    /\ saved' = FALSE
    /\ risks_fetched' = EmptyDict
    /\ cases_fetched' = <<>>
    /\ case_status' = "none"
    /\ UNCHANGED <<risks, case_history>>
    /\ UNCHANGED NotMain

\* the pass of an earlier applicant has just ended
InitApplicants ==
    /\ today_year = BaseYear
    /\ clock_year = today_year
    /\ StoreIdle
    /\ pc = "done"
    /\ \E e \in EarlierApplicants :
          /\ risks_fetched = e.r
          /\ cases_fetched = e.c
          /\ risks = Reconcile(e.r, e.c)
          /\ case_history = e.c
    /\ case_status = "YES"
    /\ requests = <<"company", "management", "risks", "cases/status", "cases/list">>
    /\ saved = TRUE
    /\ SchemaIdle
    /\ RisksIdle
    /\ SummaryIdle
    /\ AuxIdle

NextApplicants ==
    \/ MainNextApplicant
    \/ MainGetEnterprise
    \/ MainGetOwner
    \/ MainGetRisks
    \/ MainGetCaseStatus
    \/ MainGetCaseHistory
    \/ MainReconcile
    \/ MainFill

SpecApplicants == InitApplicants /\ [][NextApplicants]_vars

(***************************************************************************)
(* One run of the process while the wall clock moves on: main.py 71-72 fix *)
(* today at import; the store calls and the reconciliation block happen    *)
(* later, at any wall-clock year from then on.  A behaviour drives either  *)
(* a store (pc stays "idle") or the reconciliation block.                  *)
(***************************************************************************)
MaxElapsed == 1

NotClock == <<today_year, StoreVars, MainVars, SchemaVars, RisksVars, SummaryVars,
    AuxVars>>

\* the wall clock passes into the next year
Tick ==
    /\ clock_year < today_year + MaxElapsed
    /\ clock_year' = clock_year + 1
    /\ UNCHANGED NotClock

RunAppend == pc = "idle" /\ CasesAppend
RunHasCases == pc = "idle" /\ CasesHasCases
RunHasCasesDefault == pc = "idle" /\ CasesHasCasesDefault
RunRemoveCases == pc = "idle" /\ CasesRemoveCases

InitRun == InitCases \/ InitReconcile

NextRun ==
    \/ Tick
    \/ RunAppend
    \/ RunHasCases
    \/ RunHasCasesDefault
    \/ RunRemoveCases
    \/ MainReconcile
    \/ MainFill

SpecRun == InitRun /\ [][NextRun]_vars

(***************************************************************************)
(* The two fetches that validate a payload inside a loop, get_risks and    *)
(* get_reliability_summary, side by side: a behaviour runs one of them.    *)
(***************************************************************************)
InitFetches == InitRisks \/ InitSummary

NextFetches ==
    \/ GetRisksApi
    \/ GetRisksBrowserOpen
    \/ GetRisksBrowserRead
    \/ GetRisksAfterLoop
    \/ SummaryPass
    \/ SummaryReturn

SpecFetches == InitFetches /\ [][NextFetches]_vars

(***************************************************************************)
(* Properties of the reconciliation block (SpecMain)                       *)
(***************************************************************************)
CaseListRequested == \E i \in DOMAIN requests : requests[i] = "cases/list"

\* the block of lines 459-488 has run for this applicant
Reconciled == pc \in {"fill", "done"} /\ CaseListRequested

HasKind(list, kind) == \E i \in DOMAIN list : list[i].type_id = kind

\* some case of the kind lies within the 3-year window of the reference year
RecentOfKind(list, kind) ==
    \E i \in DOMAIN list :
        /\ list[i].type_id = kind
        /\ today_year - list[i].year <= 3
        /\ list[i].year - today_year <= 3

OfKind(list, kind) == LET k(c) == c.type_id = kind IN SelectSeq(list, k)

\* C1: when the fetched signal set has the "administrative offenses" flag and
\* the fetched store has no ADMINISTRATIVE case within the 3-year window, then
\* after reconciliation the flag is absent and the store holds no
\* ADMINISTRATIVE case.
C1_StaleAdminFlagAndCasesRemoved ==
    (Reconciled /\ ADM_RISK \in Keys(risks_fetched)
                /\ ~RecentOfKind(cases_fetched, ADMIN))
        => (ADM_RISK \notin Keys(risks) /\ ~HasKind(case_history, ADMIN))

\* C2: from the signal set {"administrative offenses": true} and the store
\* <ADMINISTRATIVE at R-5, CIVIL at R-1>, reconciliation yields exactly
\* {"civil proceedings": true} and a store holding only the CIVIL case.
C2_EndToEndScenario ==
    (Reconciled /\ risks_fetched = (ADM_RISK :> TRUE)
                /\ cases_fetched = <<[type_id |-> ADMIN, year |-> today_year - 5],
                                     [type_id |-> CIVIL, year |-> today_year - 1]>>)
        => (/\ risks = (CIV_RISK :> TRUE)
            /\ case_history = <<[type_id |-> CIVIL, year |-> today_year - 1]>>)

\* C3: when the fetched store holds a CRIMINAL case of any year, after
\* reconciliation "criminal proceedings" is true in the signal set, reported by
\* the provider or not; an empty signal set with a store of exactly one CRIMINAL
\* case becomes exactly {"criminal proceedings": true}.
C3_CriminalFlagForced ==
    Reconciled =>
        /\ HasKind(cases_fetched, CRIMINAL)
              => (CRIM_RISK \in Keys(risks) /\ risks[CRIM_RISK] = TRUE)
        /\ (/\ risks_fetched = EmptyDict
            /\ Len(cases_fetched) = 1
            /\ cases_fetched[1].type_id = CRIMINAL)
              => risks = (CRIM_RISK :> TRUE)

C3_Witness ==
    /\ Reconciled
    /\ risks_fetched = EmptyDict
    /\ cases_fetched = <<[type_id |-> CRIMINAL, year |-> today_year - 5]>>
    /\ risks = (CRIM_RISK :> TRUE)

\* C4: when the fetched store has a CIVIL case within the 3-year window, after
\* reconciliation "civil proceedings" is true and the CIVIL cases are still in
\* the store; otherwise the store holds no CIVIL case after reconciliation.
C4_CivilStep ==
    Reconciled =>
        IF RecentOfKind(cases_fetched, CIVIL)
        THEN /\ CIV_RISK \in Keys(risks) /\ risks[CIV_RISK] = TRUE
             /\ OfKind(case_history, CIVIL) = OfKind(cases_fetched, CIVIL)
        ELSE ~HasKind(case_history, CIVIL)

\* C5: when the fetched signal set has the "administrative offenses" flag and
\* the fetched store has an ADMINISTRATIVE case within the 3-year window, after
\* reconciliation the flag is present with its fetched value and every
\* ADMINISTRATIVE case, in the window or not, is still in the store.
C5_AdminFlagAndCasesKept ==
    (Reconciled /\ ADM_RISK \in Keys(risks_fetched)
                /\ RecentOfKind(cases_fetched, ADMIN))
        => (/\ ADM_RISK \in Keys(risks)
            /\ risks[ADM_RISK] = risks_fetched[ADM_RISK]
            /\ OfKind(case_history, ADMIN) = OfKind(cases_fetched, ADMIN))

C5_Witness ==
    /\ Reconciled
    /\ ADM_RISK \in Keys(risks_fetched)
    /\ cases_fetched = <<[type_id |-> ADMIN, year |-> today_year - 3],
                         [type_id |-> ADMIN, year |-> today_year - 5]>>
    /\ ADM_RISK \in Keys(risks)
    /\ Len(OfKind(case_history, ADMIN)) = 2

\* C6: a case-list request is issued only after the case-status check returned
\* YES: with the status NO, SYNC or INIT no case-list request is issued.
C6_CaseListOnlyWhenStatusYes ==
    case_status \in {"NO", "SYNC", "INIT"} => ~CaseListRequested

\* the three flags lines 459-488 read or write
ReconciledFlags == {ADM_RISK, CRIM_RISK, CIV_RISK}

\* C14: reconciliation changes no signal-set entry other than "administrative
\* offenses", "criminal proceedings" and "civil proceedings": every other key
\* present before is present afterwards with the same value, and no other key
\* is added.
C14_OtherFlagsUntouched ==
    Reconciled =>
        /\ \A k \in Keys(risks_fetched) \ ReconciledFlags :
              k \in Keys(risks) /\ risks[k] = risks_fetched[k]
        /\ Keys(risks) \ ReconciledFlags \subseteq Keys(risks_fetched)

C14_Witness ==
    /\ Reconciled
    /\ risks_fetched = (TAX_RISK :> FALSE) @@ (ADM_RISK :> TRUE)
    /\ risks = (TAX_RISK :> FALSE) @@ (CRIM_RISK :> TRUE) @@ (CIV_RISK :> TRUE)

Requested(path) == \E i \in DOMAIN requests : requests[i] = path

\* the place in requests of the first request of the path
FirstRequest(path) ==
    CHOOSE i \in DOMAIN requests :
        requests[i] = path /\ \A j \in 1..(i - 1) : requests[j] # path

\* C19: if any fetch for an applicant fails, no document is saved for that
\* applicant; the document-fill step runs only after the enterprise, owner,
\* risk and case fetches and the reconciliation of that applicant have all
\* completed.
C19_NoPartialOutput ==
    /\ pc = "aborted" => ~saved
    /\ saved =>
          /\ pc = "done"
          /\ Requested("company") /\ Requested("management")
          /\ Requested("risks") /\ Requested("cases/status")
          /\ FirstRequest("company") < FirstRequest("management")
          /\ FirstRequest("management") < FirstRequest("risks")
          /\ FirstRequest("risks") < FirstRequest("cases/status")
          /\ case_status \in Status
          /\ Truthy(case_status) => Requested("cases/list")
          /\ risks = Reconcile(risks_fetched, cases_fetched)

C19_Witness ==
    /\ pc = "aborted"
    /\ Requested("cases/list")
    /\ ~saved

\* one step of lines 459-488 on the pair (signal set, store); no step writes
\* the store
ApplyStep(step, st) ==
    [risks |-> CASE step = "admin" -> ReconcileAdmin(st.risks, st.content)
                 [] step = "criminal" -> ReconcileCriminal(st.risks, st.content)
                 [] step = "civil" -> ReconcileCivil(st.risks, st.content),
     content |-> st.content]

RECURSIVE ApplyOrder(_, _)
ApplyOrder(order, st) ==
    IF order = <<>> THEN st
    ELSE ApplyOrder(Tail(order), ApplyStep(Head(order), st))

StepNames == {"admin", "criminal", "civil"}

\* every order of the three steps
StepOrders ==
    {order \in [1..3 -> StepNames] : \A i, j \in 1..3 : order[i] = order[j] => i = j}

\* C20: applying steps 2 and 3 in either order, and step 1 in any position,
\* gives the same final signal set and the same final store for every input.
C20_OrderIndependence ==
    (pc = "fill" /\ CaseListRequested) =>
        \A order \in StepOrders :
            ApplyOrder(order, [risks |-> risks_fetched, content |-> cases_fetched])
                = [risks |-> risks, content |-> case_history]

C20_Witness ==
    /\ pc = "fill"
    /\ CaseListRequested
    /\ ADM_RISK \in Keys(risks_fetched)
    /\ CRIM_RISK \notin Keys(risks_fetched)
    /\ CIV_RISK \notin Keys(risks_fetched)
    /\ Keys(risks) \cap ReconciledFlags = {CRIM_RISK, CIV_RISK}
    /\ Cardinality(StepOrders) = 6

\* the steps in the order of the program text
ProgramOrder == <<"admin", "criminal", "civil">>

\* C21: given a signal set with no "administrative offenses" flag, running
\* reconciliation a second time on what the first run produced changes neither
\* the signal set nor the store.
C21_IdempotentOnCleanInput ==
    (pc = "fill" /\ CaseListRequested /\ ADM_RISK \notin Keys(risks_fetched)) =>
        /\ [risks |-> risks, content |-> case_history]
              = ApplyOrder(ProgramOrder, [risks |-> risks_fetched, content |-> cases_fetched])
        /\ ApplyOrder(ProgramOrder, [risks |-> risks, content |-> case_history])
              = [risks |-> risks, content |-> case_history]

C21_Witness ==
    /\ pc = "fill"
    /\ CaseListRequested
    /\ risks_fetched = (CIV_RISK :> FALSE)
    /\ cases_fetched = <<[type_id |-> CIVIL, year |-> today_year - 1],
                         [type_id |-> CRIMINAL, year |-> today_year - 5]>>
    /\ risks = (CIV_RISK :> TRUE) @@ (CRIM_RISK :> TRUE)

\* the same with nothing for any step to act on
C21_WitnessNoMatch ==
    /\ pc = "fill"
    /\ CaseListRequested
    /\ risks_fetched = (TAX_RISK :> TRUE)
    /\ cases_fetched = <<[type_id |-> CIVIL, year |-> today_year - 5]>>
    /\ risks = risks_fetched

(***************************************************************************)
(* Properties of the loop over applicants (SpecApplicants)                 *)
(***************************************************************************)
\* C24: each applicant is reconciled with a freshly fetched signal set and case
\* store: the final signal set and store of an applicant are a function of that
\* applicant's fetched data alone, whatever an applicant processed earlier in
\* the run left behind.
C24_NoStateAcrossApplicants ==
    /\ pc \in {"get_case_status", "get_case_history"} => risks = risks_fetched
    /\ pc = "reconcile" => (risks = risks_fetched /\ case_history = cases_fetched)
    /\ (pc \in {"fill", "done"} /\ CaseListRequested) =>
          /\ risks = Reconcile(risks_fetched, cases_fetched)
          /\ case_history = cases_fetched

\* an applicant with nothing reported and no case, processed after an applicant
\* that ended with flags set and a store of two cases
C24_Witness ==
    /\ pc = "fill"
    /\ CaseListRequested
    /\ risks_fetched = EmptyDict
    /\ cases_fetched = <<>>
    /\ risks = EmptyDict
    /\ case_history = <<>>

\* the locals of the pass before are still bound when the next pass begins
C24_LeftOver ==
    /\ pc = "get_risks"
    /\ requests = <<"company", "management">>
    /\ risks = (ADM_RISK :> TRUE) @@ (TAX_RISK :> TRUE) @@ (CRIM_RISK :> TRUE)
    /\ Len(case_history) = 2

(***************************************************************************)
(* Properties of one run under a moving wall clock (SpecRun)               *)
(***************************************************************************)
\* some case of the kind is at most 3 years older than the year y
WithinThreeYearsOf(y, list, kind) ==
    \E i \in DOMAIN list : list[i].type_id = kind /\ y - list[i].year <= 3

\* C22: the reference year of every age-window computation of one run is the
\* value fixed at process start: it never changes, and every has_cases call and
\* every reconciliation step computes with it, also when the wall clock has
\* moved to another year.
C22_ReferenceYearFixed ==
    /\ today_year = clock_year
    /\ [][today_year' = today_year]_vars
    /\ []((last_call.op = "has_cases" /\ last_call.case_type # CRIMINAL) =>
            last_call.result =
                (\E i \in DOMAIN cases :
                    /\ cases[i].type_id = last_call.case_type
                    /\ today_year - cases[i].year <= last_call.max_delta
                    /\ cases[i].year - today_year <= last_call.max_delta))
    /\ [](pc = "fill" =>
            /\ CIV_RISK \notin Keys(risks_fetched) =>
                  (CIV_RISK \in Keys(risks)
                      <=> WithinThreeYearsOf(today_year, cases_fetched, CIVIL))
            /\ ADM_RISK \in Keys(risks_fetched) =>
                  (ADM_RISK \in Keys(risks)
                      <=> WithinThreeYearsOf(today_year, cases_fetched, ADMIN)))

C22_Witness ==
    /\ clock_year = today_year + 1
    /\ last_call.op = "has_cases"
    /\ last_call.case_type = CIVIL
    /\ last_call.max_delta = 3
    /\ cases = <<[type_id |-> CIVIL, year |-> today_year - 3]>>
    /\ last_call.result = TRUE

\* the reconciliation block after the wall clock moved on
C22_WitnessBlock ==
    /\ clock_year = today_year + 1
    /\ pc = "fill"
    /\ risks_fetched = (ADM_RISK :> TRUE)
    /\ cases_fetched = <<[type_id |-> ADMIN, year |-> today_year - 3]>>
    /\ risks = (ADM_RISK :> TRUE)

C25_WitnessEmptyStore ==
    /\ last_call.op = "has_cases"
    /\ cases = <<>>
    /\ last_call.result = FALSE

(***************************************************************************)
(* Properties of the case store (SpecCases)                                *)
(***************************************************************************)
\* C10: has_cases(kind, d) with kind CIVIL or ADMINISTRATIVE returns true iff
\* some stored case of that kind has |R - case.year| <= d; a single CIVIL case
\* at distance 4 gives false for d = 3 and at distance <= 3 gives true; cases
\* of other kinds never make it true.
C10_WindowedDecay ==
    (last_call.op = "has_cases" /\ last_call.case_type \in {CIVIL, ADMIN})
        => /\ last_call.result =
                (\E i \in DOMAIN cases :
                    /\ cases[i].type_id = last_call.case_type
                    /\ today_year - cases[i].year <= last_call.max_delta
                    /\ cases[i].year - today_year <= last_call.max_delta)
           /\ ~HasKind(cases, last_call.case_type) => last_call.result = FALSE

C10_Witness ==
    /\ last_call.op = "has_cases"
    /\ last_call.case_type = CIVIL
    /\ last_call.max_delta = 3
    /\ cases = <<[type_id |-> CIVIL, year |-> today_year - 4]>>
    /\ last_call.result = FALSE

\* C11: has_cases(CRIMINAL) returns true iff the store holds at least one
\* CRIMINAL case, whatever the case's year, the reference year and max_delta.
C11_CriminalPermanence ==
    (last_call.op = "has_cases" /\ last_call.case_type = CRIMINAL)
        => last_call.result = (\E i \in DOMAIN cases : cases[i].type_id = CRIMINAL)

C11_Witness ==
    /\ last_call.op = "has_cases"
    /\ last_call.case_type = CRIMINAL
    /\ last_call.max_delta = 0
    /\ cases = <<[type_id |-> CRIMINAL, year |-> today_year - 6]>>
    /\ last_call.result = TRUE

\* C12: after remove_cases(kind), on a store reached by any sequence of appends
\* and earlier removals, no case left in the store has that kind.
C12_NoCaseOfRemovedKind ==
    last_call.op = "remove_cases"
        => \A i \in DOMAIN cases : cases[i].type_id # last_call.case_type

C12_Witness ==
    /\ last_call.op = "remove_cases"
    /\ Len(last_call.before) = 2
    /\ \A i \in DOMAIN last_call.before :
          last_call.before[i].type_id = last_call.case_type
    /\ cases = <<>>

\* the place in "before" of the n-th case whose kind is not "kind"
NthKept(before, kind, n) ==
    CHOOSE i \in DOMAIN before :
        /\ before[i].type_id # kind
        /\ Cardinality({j \in 1..(i - 1) : before[j].type_id # kind}) = n - 1

\* C13: remove_cases(kind) leaves exactly the cases of the other kinds,
\* unchanged and in their original relative order.
C13_OtherKindsKeptInOrder ==
    last_call.op = "remove_cases"
        => LET before == last_call.before
               kind == last_call.case_type
               kept == {i \in DOMAIN before : before[i].type_id # kind}
           IN  /\ Len(cases) = Cardinality(kept)
               /\ \A n \in DOMAIN cases : cases[n] = before[NthKept(before, kind, n)]

C13_Witness ==
    /\ last_call.op = "remove_cases"
    /\ last_call.case_type = ADMIN
    /\ Len(last_call.before) = 2
    /\ Len(cases) = 2
    /\ cases[1] # cases[2]

(***************************************************************************)
(* Properties of the poll-until-ready loop (SpecSchema)                    *)
(***************************************************************************)
\* C7: while waiting for the graph, every polled status NO or INIT is followed
\* by a new trigger request, and a polled status SYNC is followed only by a
\* wait and the next poll, with no trigger request.
C7_RetriggerOnNoOrInit ==
    sg_pc = "returned" =>
        \A i \in DOMAIN sg_log :
            /\ (sg_log[i].event = "relations/status" /\ sg_log[i].status \in {"NO", "INIT"})
                  => \E j \in (i + 1)..Len(sg_log) : sg_log[j].event = "relations/start"
            /\ (sg_log[i].event = "relations/status" /\ sg_log[i].status = "SYNC")
                  => /\ i + 2 <= Len(sg_log)
                     /\ sg_log[i + 1].event = "sleep"
                     /\ sg_log[i + 2].event = "relations/status"

\* the SYNC half of C7 alone, which the loop does satisfy
C7_SyncOnlyWaits ==
    sg_pc = "returned" =>
        \A i \in DOMAIN sg_log :
            (sg_log[i].event = "relations/status" /\ sg_log[i].status = "SYNC")
                => /\ i + 2 <= Len(sg_log)
                   /\ sg_log[i + 1].event = "sleep"
                   /\ sg_log[i + 2].event = "relations/status"

\* the status answers of the trigger and of the polls, in order
StatusReads == SelectSeq(sg_log, LAMBDA e : e.event # "sleep")

SchemaPolls == Len(SelectSeq(sg_log, LAMBDA e : e.event = "relations/status"))

\* C17: start_schema_generation returns only after a status read equal to YES,
\* it returns if the status provider eventually reports YES, and while the
\* provider does not report YES it keeps polling, whatever the number of polls
\* already made.
C17_NoTimeout ==
    /\ [](sg_pc = "returned" =>
            /\ sg_status = "YES"
            /\ StatusReads # <<>>
            /\ StatusReads[Len(StatusReads)].status = "YES"
            /\ \A i \in 1..(Len(StatusReads) - 1) : StatusReads[i].status # "YES")
    /\ [][sg_pc' = "returned" => (sg_pc = "while" /\ sg_status = "YES")]_vars
    /\ []((sg_pc = "while" /\ sg_status # "YES" /\ SchemaPolls < MaxPolls)
            => ENABLED SchemaPoll)
    /\ ((sg_pc = "while" /\ sg_status = "YES") ~> (sg_pc = "returned"))

C17_Witness ==
    /\ sg_pc = "returned"
    /\ SchemaPolls = MaxPolls
    /\ \A i \in 1..(Len(StatusReads) - 1) : StatusReads[i].status = "SYNC"

C17_StillWaiting ==
    /\ sg_pc = "while"
    /\ sg_status # "YES"
    /\ SchemaPolls = MaxPolls

(***************************************************************************)
(* Properties of get_reliability_summary (SpecSummary)                     *)
(***************************************************************************)
SummaryFetches == SelectSeq(rs_log, LAMBDA e : e.event = "reliability_summary")

\* C15: get_reliability_summary issues at most 5 summary fetches, stops at the
\* first fetch whose "risk" bucket status is YES, waits the fixed delay only
\* between two consecutive fetches, and always terminates when each fetch
\* returns.
C15_SummaryPollingBound ==
    /\ [](rs_pc # "idle" =>
            /\ Len(SummaryFetches) <= 5
            /\ \A i \in 1..(Len(SummaryFetches) - 1) : SummaryFetches[i].status # "YES"
            /\ rs_pc = "while" =>
                  \A i \in DOMAIN SummaryFetches : SummaryFetches[i].status # "YES"
            /\ \A i \in DOMAIN rs_log :
                  rs_log[i] = Sleep =>
                      /\ i > 1
                      /\ rs_log[i - 1].event = "reliability_summary"
                      /\ IF i < Len(rs_log)
                         THEN rs_log[i + 1].event = "reliability_summary"
                         ELSE rs_pc = "while" /\ Len(SummaryFetches) < 5
                                              /\ ENABLED SummaryPass
            /\ \A i \in 1..(Len(rs_log) - 1) :
                  rs_log[i].event = "reliability_summary" => rs_log[i + 1] = Sleep)
    /\ <>(rs_pc = "done")

C15_Witness ==
    /\ rs_pc = "done"
    /\ rs_result.kind = "return"
    /\ Len(SummaryFetches) = 5
    /\ Len(rs_log) = 9
    /\ rs_raw[1].risk.status = "SYNC"

\* the tag texts of one bucket of a response
BucketTags(bucket) == {bucket.data[i].tag : i \in DOMAIN bucket.data}

\* the text has the two qualifier words after some other word
ContainsQualifier(words) ==
    \E i \in DOMAIN words :
        i > 1 /\ i < Len(words) /\ words[i] = "stepen" /\ words[i + 1] = "riska"

\* C23: the signal set returned by get_reliability_summary is exactly the union
\* of the tags of the "risk" and "attention" buckets of the last fetched
\* response that do not contain the degree-of-risk qualifier substring; tags of
\* the "positive" bucket and tags containing the qualifier never appear in it.
C23_SummaryIsFilteredUnion ==
    (rs_pc = "done" /\ rs_result.kind = "return") =>
        LET last == rs_data[1]
            offered == BucketTags(last.risk) \cup BucketTags(last.attention)
        IN  /\ rs_result.value = {t \in offered : ~ContainsQualifier(t)}
            /\ \A t \in rs_result.value : ~ContainsQualifier(t)
            /\ \A t \in BucketTags(last.positive) \ offered : t \notin rs_result.value

C23_Witness ==
    /\ rs_pc = "done"
    /\ rs_retry = 2
    /\ rs_data[1].risk = [status |-> "YES", data |-> <<TagTax, TagHigh>>]
    /\ rs_data[1].attention.data = <<TagArrest, TagTax>>
    /\ rs_result = Return({TagTax.tag, TagArrest.tag})

\* the status texts the providers document
KnownStatus == {"YES", "NO", "SYNC", "INIT"}

\* the last summary response carries a status text outside the known ones
SummaryMalformed ==
    /\ rs_data # <<>>
    /\ \/ rs_data[1].risk.status \notin KnownStatus
       \/ rs_data[1].attention.status \notin KnownStatus
       \/ rs_data[1].positive.status \notin KnownStatus

\* the last risk-list response has a row with a status text outside the known ones
RiskRowsMalformed == \E i \in DOMAIN api_rows : api_rows[i].status \notin KnownStatus

\* C18: a malformed payload is never retried: when a fetched response fails
\* schema validation, the fetch raises at once and issues no further request,
\* also inside the polling loop of get_reliability_summary and the retry loop
\* of get_risks.
C18_MalformedNeverRetried ==
    /\ SummaryMalformed =>
          /\ rs_pc = "done"
          /\ rs_result = Raise("ValidationError")
          /\ rs_log[Len(rs_log)].event = "reliability_summary"
          /\ Len(SummaryFetches) = rs_retry + 1
    /\ (rs_pc = "while" /\ rs_data # <<>>) => ~SummaryMalformed
    /\ RiskRowsMalformed =>
          /\ gr_pc = "done"
          /\ gr_result = Raise("ValidationError")
          /\ gr_attempts = gr_sleeps + 1

C18_Witness ==
    /\ SummaryMalformed
    /\ rs_data[1].risk.status = "YES"
    /\ rs_retry = 2
    /\ Len(SummaryFetches) = 3
    /\ rs_result = Raise("ValidationError")

C18_WitnessRisks ==
    /\ RiskRowsMalformed
    /\ gr_attempts = 2
    /\ gr_sleeps = 1
    /\ gr_result = Raise("ValidationError")

(***************************************************************************)
(* Properties of get_risks (SpecRisks)                                     *)
(***************************************************************************)
\* every one of the max_retries attempts ended in ServiceNotAvailableError
Exhausted ==
    /\ gr_pc = "done"
    /\ gr_attempts = gr_args.max_retries
    /\ gr_sleeps = gr_args.max_retries

C16_BoundedRetry ==
    gr_pc # "idle" =>
        /\ gr_attempts <= gr_args.max_retries
        /\ gr_sleeps <= gr_attempts
        /\ gr_attempts <= gr_sleeps + 1
        /\ gr_pc = "for" => gr_attempts = gr_sleeps
        /\ gr_attempts > gr_sleeps => gr_pc \in {"browser_for", "done"}
        /\ (gr_pc = "done" /\ gr_result.kind = "return")
              => (gr_attempts = gr_sleeps + 1 /\ gr_risks = gr_result.value)

C16_Witness ==
    /\ gr_pc = "done"
    /\ gr_result.kind = "return"
    /\ gr_args.max_retries = DefaultMaxRetries
    /\ gr_attempts = 3
    /\ gr_sleeps = 2

\* C9: every entry of the signal set returned by get_risks, from the api or the
\* browser source, has the value true; a category whose provider status is not
\* YES is absent from the mapping.
C9_ReturnedEntriesAllTrue ==
    (gr_pc = "done" /\ gr_result.kind = "return")
        => \A k \in Keys(gr_result.value) :
              /\ gr_result.value[k] = TRUE
              /\ gr_args.type = "api"
                    => \E i \in DOMAIN api_rows :
                          api_rows[i].name = k /\ api_rows[i].status = "YES"
              /\ gr_args.type = "browser" => br_risks[k] = "DA"

\* ---------------------------------------------------------------------
\* Kompra.get_case_history (kompra.py 1045-1082)
\* ---------------------------------------------------------------------

\* The JSON bodies of the case-list endpoint: CaseHistory(**data) accepts a
\* body whose content is a list of cases and raises ValidationError on any
\* other body.
HistoryBodies ==
    {[well_formed |-> TRUE, content |-> c] : c \in CaseLists}
        \cup {[well_formed |-> FALSE, content |-> <<>>]}

\* What RequestHandler.request returns: <<>> stands for None (a failed
\* request or an error status), <<b>> for a response with body b.
HistoryResponses == {<<>>} \cup {<<b>> : b \in HistoryBodies}

CaseListRequest(response) ==
    [event |-> "cases/list",
     status |-> IF response = <<>> THEN "failed" ELSE "ok",
     response |-> response]

\* lines 1074-1082: every response object has a json attribute, so the
\* DataNotFetchedError branch is never taken; the body is validated and its
\* content returned
HistoryParse(response) ==
    IF response[1].well_formed THEN Return(response[1].content)
    ELSE Raise("ValidationError")

SecondFailedEmptyStore == Return(<<>>)

\* lines 1071-1072: the second request failed too
SecondFailed == Raise("DataNotFetchedRequestError")

\* lines 1048-1057: the first request; on failure sleep(60)
HistoryFirst ==
    /\ ch_pc = "first"
    /\ \E response \in HistoryResponses :
          IF response = <<>>
          THEN /\ ch_log' = ch_log \o <<CaseListRequest(response), Sleep>>
               /\ ch_pc' = "second"
               /\ UNCHANGED ch_result
          ELSE /\ ch_log' = Append(ch_log, CaseListRequest(response))
               /\ ch_result' = HistoryParse(response)
               /\ ch_pc' = "done"
    /\ UNCHANGED NotHistory

\* lines 1058-1082: the second request
HistorySecond ==
    /\ ch_pc = "second"
    /\ \E response \in HistoryResponses :
          /\ ch_log' = Append(ch_log, CaseListRequest(response))
          /\ ch_result' = IF response = <<>> THEN SecondFailed
                          ELSE HistoryParse(response)
          /\ ch_pc' = "done"
    /\ UNCHANGED NotHistory

InitHistory ==
    /\ today_year = BaseYear
    /\ clock_year = today_year
    /\ StoreIdle
    /\ MainIdle
    /\ SchemaIdle
    /\ RisksIdle
    /\ SummaryIdle
    /\ TokenIdle
    /\ CrmIdle
    /\ ch_pc = "first"
    /\ ch_log = <<>>
    /\ ch_result = None

NextHistory ==
    \/ HistoryFirst
    \/ HistorySecond

SpecHistory == InitHistory /\ [][NextHistory]_vars

CaseListRequests == {i \in DOMAIN ch_log : ch_log[i].event = "cases/list"}

\* C26: get_case_history issues at most two case-list requests; a second
\* one is issued only when the first failed, and only after the wait; when
\* both fail the call raises DataNotFetchedRequestError, and a value it
\* returns is always the content of a response that arrived, never an empty
\* store standing in for the failure.
C26_AtMostTwoRequests ==
    /\ Cardinality(CaseListRequests) <= 2
    /\ \A i \in CaseListRequests :
          i > 1 => /\ i = 3
                   /\ ch_log[1].event = "cases/list"
                   /\ ch_log[1].status = "failed"
                   /\ ch_log[2] = Sleep
    /\ ch_pc = "done" =>
          /\ (\A i \in CaseListRequests : ch_log[i].status = "failed")
                => ch_result = Raise("DataNotFetchedRequestError")
          /\ ch_result.kind = "return" =>
                /\ ch_log[Len(ch_log)].status = "ok"
                /\ ch_log[Len(ch_log)].response[1].well_formed
                /\ ch_result.value = ch_log[Len(ch_log)].response[1].content

C26_Witness ==
    /\ ch_pc = "done"
    /\ Cardinality(CaseListRequests) = 2
    /\ ch_log[3].status = "failed"
    /\ ch_result = Raise("DataNotFetchedRequestError")

C26_WitnessRetried ==
    /\ ch_pc = "done"
    /\ Cardinality(CaseListRequests) = 2
    /\ ch_result.kind = "return"
    /\ ch_result.value # <<>>

\* ---------------------------------------------------------------------
\* The token accessor: Kompra.token, login, refresh (kompra.py 415-568)
\* ---------------------------------------------------------------------

\* kompra.py 496 and 555: expiry_ts = time.time() + expires_in - 30
Margin == 30

\* The lifetimes the provider grants, all longer than the margin.
ExpiresIn == {2 * Margin, 3 * Margin}

MaxTicks == 3

\* Token.is_relevant
is_relevant(token) == tk_now < token.expiry_ts

\* The answers to an oauth/token request: <<>> for a failed request, a body
\* with the three keys, or a body that lacks one of them.
AuthResponses ==
    {<<>>} \cup {<<[complete |-> TRUE, expires_in |-> e]>> : e \in ExpiresIn}
           \cup {<<[complete |-> FALSE, expires_in |-> 0]>>}

\* How login and refresh end on a response: they return False, raise
\* Exception("Auth exception"), or store a new token and return True.
AuthOutcome(response) ==
    IF response = <<>> THEN "failed"
    ELSE IF ~response[1].complete THEN "raised"
    ELSE "ok"

NewToken(response) == [expiry_ts |-> tk_now + response[1].expires_in - Margin]

AuthRequest(grant, response) == [event |-> grant, status |-> AuthOutcome(response)]

\* Token.save
Saved(token) == [exists |-> TRUE, content |-> <<token>>]

\* "if self._token: return self._token / else: raise TokenError(...)"
ReturnHeld(held) == IF held # <<>> THEN Return(held[1]) ELSE Raise("TokenError")

\* lines 417-419: a held token that is still relevant is returned
TokenHeldRelevant ==
    /\ tk_pc \in {"idle", "done"}
    /\ tk_token # <<>>
    /\ is_relevant(tk_token[1])
    /\ tk_log' = <<>>
    /\ tk_result' = Return(tk_token[1])
    /\ tk_pc' = "done"
    /\ UNCHANGED <<tk_now, tk_token, tk_cache>>
    /\ UNCHANGED NotToken

\* lines 420-429: the held token is expired: refresh, and login when the
\* refresh returned False; then self._token is returned when it is truthy
TokenHeldExpired ==
    /\ tk_pc \in {"idle", "done"}
    /\ tk_token # <<>>
    /\ ~is_relevant(tk_token[1])
    /\ \E r1, r2 \in AuthResponses :
          LET refreshed == AuthOutcome(r1)
              logged == AuthOutcome(r2)
          IN  /\ tk_pc' = "done"
              /\ CASE refreshed = "ok" ->
                        /\ tk_log' = <<AuthRequest("refresh", r1)>>
                        /\ tk_token' = <<NewToken(r1)>>
                        /\ tk_cache' = Saved(NewToken(r1))
                        /\ tk_result' = ReturnHeld(tk_token')
                   [] refreshed = "raised" ->
                        /\ tk_log' = <<AuthRequest("refresh", r1)>>
                        /\ tk_result' = Raise("Exception")
                        /\ UNCHANGED <<tk_token, tk_cache>>
                   [] refreshed = "failed" /\ logged = "ok" ->
                        /\ tk_log' = <<AuthRequest("refresh", r1), AuthRequest("login", r2)>>
                        /\ tk_token' = <<NewToken(r2)>>
                        /\ tk_cache' = Saved(NewToken(r2))
                        /\ tk_result' = ReturnHeld(tk_token')
                   [] refreshed = "failed" /\ logged = "raised" ->
                        /\ tk_log' = <<AuthRequest("refresh", r1), AuthRequest("login", r2)>>
                        /\ tk_result' = Raise("Exception")
                        /\ UNCHANGED <<tk_token, tk_cache>>
                   [] refreshed = "failed" /\ logged = "failed" ->
                        /\ tk_log' = <<AuthRequest("refresh", r1), AuthRequest("login", r2)>>
                        /\ UNCHANGED <<tk_token, tk_cache>>
                        /\ tk_result' = ReturnHeld(tk_token')
    /\ UNCHANGED tk_now
    /\ UNCHANGED NotToken

\* lines 431-437: no token is held and the cache file exists: an empty file
\* is unlinked and Token.load then opens the missing file; any other file is
\* loaded and the loaded token returned
TokenFromCache ==
    /\ tk_pc \in {"idle", "done"}
    /\ tk_token = <<>>
    /\ tk_cache.exists
    /\ tk_log' = <<>>
    /\ tk_pc' = "done"
    /\ IF tk_cache.content = <<>>
       THEN /\ tk_cache' = NoFile
            /\ tk_result' = Raise("FileNotFoundError")
            /\ UNCHANGED tk_token
       ELSE /\ tk_token' = tk_cache.content
            /\ tk_result' = Return(tk_cache.content[1])
            /\ UNCHANGED tk_cache
    /\ UNCHANGED tk_now
    /\ UNCHANGED NotToken

\* lines 438-446: no token is held and there is no cache file: login
TokenFirstLogin ==
    /\ tk_pc \in {"idle", "done"}
    /\ tk_token = <<>>
    /\ ~tk_cache.exists
    /\ tk_pc' = "done"
    /\ \E r \in AuthResponses :
          /\ tk_log' = <<AuthRequest("login", r)>>
          /\ CASE AuthOutcome(r) = "ok" ->
                    /\ tk_token' = <<NewToken(r)>>
                    /\ tk_cache' = Saved(NewToken(r))
                    /\ tk_result' = ReturnHeld(tk_token')
               [] AuthOutcome(r) = "raised" ->
                    /\ tk_result' = Raise("Exception")
                    /\ UNCHANGED <<tk_token, tk_cache>>
               [] AuthOutcome(r) = "failed" ->
                    /\ UNCHANGED <<tk_token, tk_cache>>
                    /\ tk_result' = ReturnHeld(tk_token')
    /\ UNCHANGED tk_now
    /\ UNCHANGED NotToken

\* Time passes between two uses of the accessor.
TokenTick ==
    /\ tk_now < MaxTicks * Margin
    /\ tk_now' = tk_now + Margin
    /\ tk_pc' = "idle"
    /\ UNCHANGED <<tk_token, tk_cache, tk_log, tk_result>>
    /\ UNCHANGED NotToken

\* After Kompra.__init__ no token is held; the cache file is absent, empty,
\* or holds the token an earlier run saved.
InitToken ==
    /\ today_year = BaseYear
    /\ clock_year = today_year
    /\ StoreIdle
    /\ MainIdle
    /\ SchemaIdle
    /\ RisksIdle
    /\ SummaryIdle
    /\ HistoryIdle
    /\ CrmIdle
    /\ tk_pc = "idle"
    /\ tk_now = 0
    /\ tk_token = <<>>
    /\ tk_cache \in {NoFile, [exists |-> TRUE, content |-> <<>>]}
                      \cup {Saved([expiry_ts |-> e]) : e \in {0, 2 * Margin}}
    /\ tk_log = <<>>
    /\ tk_result = None

NextToken ==
    \/ TokenHeldRelevant
    \/ TokenHeldExpired
    \/ TokenFromCache
    \/ TokenFirstLogin
    \/ TokenTick

SpecToken == InitToken /\ [][NextToken]_vars

TokenLogged(grant, status) ==
    \E i \in DOMAIN tk_log : tk_log[i] = [event |-> grant, status |-> status]

\* C27: a token the accessor returns is unexpired at the moment of return;
\* when the refresh and the login of an expired token both fail, the
\* accessor raises TokenError.
C27_ReturnedTokenUnexpired ==
    tk_pc = "done" =>
        /\ tk_result.kind = "return" => tk_now < tk_result.value.expiry_ts
        /\ (TokenLogged("refresh", "failed") /\ TokenLogged("login", "failed"))
              => tk_result = Raise("TokenError")

\* The two ways the accessor hands out an expired token: after a failed
\* refresh and a failed login, and straight from the cache file.
C27_ExpiredAfterFailures ==
    /\ tk_pc = "done"
    /\ TokenLogged("refresh", "failed") /\ TokenLogged("login", "failed")
    /\ tk_result.kind = "return"
    /\ tk_now >= tk_result.value.expiry_ts

C27_ExpiredFromCache ==
    /\ tk_pc = "done"
    /\ tk_log = <<>>
    /\ tk_result.kind = "return"
    /\ tk_now >= tk_result.value.expiry_ts

\* ---------------------------------------------------------------------
\* The inline age test of main() against Cases.has_cases
\* ---------------------------------------------------------------------

\* main.py 460-464 and 479-483:
\* any((today.year - case.year) <= 3 for case in content if case.type_id == kind)
InlineAgeTest(content, kind) ==
    LET ofKind(c) == c.type_id = kind
        sel == SelectSeq(content, ofKind)
    IN  PyAny([i \in DOMAIN sel |-> (today_year - sel[i].year) <= 3])

\* C28: for CIVIL and for ADMINISTRATIVE the inline age test of main() and
\* Cases.has_cases(kind, 3) give the same answer on every fetched store and
\* every reference year, stores with a case dated after the reference year
\* included; so the flags the block leaves are those has_cases would give.
C28_InlineTestIsHasCases ==
    /\ \A kind \in {CIVIL, ADMIN} :
          InlineAgeTest(cases_fetched, kind) = has_cases(cases_fetched, kind, 3)
    /\ pc = "fill" =>
          /\ CIV_RISK \in Keys(risks) <=>
                (CIV_RISK \in Keys(risks_fetched) \/ has_cases(cases_fetched, CIVIL, 3))
          /\ ADM_RISK \in Keys(risks) <=>
                (ADM_RISK \in Keys(risks_fetched) /\ has_cases(cases_fetched, ADMIN, 3))

\* A store whose only CIVIL case is dated after the reference year: the
\* block sets the civil flag, has_cases(CIVIL, 3) is False.
C28_FutureCaseDiffers ==
    /\ pc = "fill"
    /\ \E i \in DOMAIN cases_fetched :
          cases_fetched[i].type_id = CIVIL /\ cases_fetched[i].year > today_year + 3
    /\ CIV_RISK \notin Keys(risks_fetched)
    /\ CIV_RISK \in Keys(risks)
    /\ ~has_cases(cases_fetched, CIVIL, 3)

\* ---------------------------------------------------------------------
\* The reads of the browser scrape (kompra.py 729-756)
\* ---------------------------------------------------------------------

ReadHasMalformed == br_any_bad

\* C29: the browser scrape makes at most 5 reads; it reads again whenever
\* an entry of the current read is malformed and reads are left, it stops at
\* the first read with no malformed entry, and no key of the returned
\* mapping had a malformed value.
C29_RereadsOnAnyMalformed ==
    (gr_pc \in {"browser_for", "done"} /\ gr_args.type = "browser" /\ br_retry >= 1) =>
        /\ br_retry <= BrowserReads
        /\ gr_pc = "browser_for" => ReadHasMalformed
        /\ (gr_pc = "done" /\ br_retry < BrowserReads) => ~ReadHasMalformed
        /\ gr_pc = "done" =>
              /\ gr_result.kind = "return"
              /\ \A k \in Keys(gr_result.value) : br_risks[k] \in {"DA", "NET"}

\* A first read that left a risk without an answer, or with the
\* service-unavailable text, ends the loop all the same.
C29_StopsOnMalformedEntry ==
    /\ gr_pc = "done"
    /\ gr_args.type = "browser"
    /\ br_retry = 1
    /\ br_any_bad
    /\ \E k \in Keys(br_risks) : br_risks[k] = ""

C29_StopsOnUnavailable ==
    /\ gr_pc = "done"
    /\ gr_args.type = "browser"
    /\ br_retry = 1
    /\ br_any_bad
    /\ \E k \in Keys(br_risks) : br_risks[k] = "SERVIS NEDOSTUPEN"

\* ---------------------------------------------------------------------
\* The session flag of the CRM client (crm.py 87-494)
\* ---------------------------------------------------------------------

MaxFiles == 2

\* The operations that begin with "if not self.is_logged_in: self.login()"
\* and make one data request.
GuardedOps ==
    {"get_unfinished_activities", "get_guarantee", "download_guarantee_files",
     "download_file", "find_project", "get_project_data",
     "fetch_agreement_data", "fetch_vypiska_id"}

\* Every operation that asks the CRM for data.
FetchOps == GuardedOps \cup {"download_vypiskas", "download_vypiska"}

CrmRequest(op, event, ok) ==
    [op |-> op, event |-> event, status |-> IF ok THEN "ok" ELSE "failed"]

\* "if not self.is_logged_in: self.login()": the flag and the request made;
\* login() sets the flag to the outcome of its request (crm.py 127-150)
Guard(op, flag, login_ok) ==
    IF flag THEN [flag |-> TRUE, log |-> <<>>]
    ELSE [flag |-> login_ok, log |-> <<CrmRequest(op, "login", login_ok)>>]

LoginsOf(log) == {i \in DOMAIN log : log[i].event = "login"}

LastOf(idx) == CHOOSE i \in idx : \A j \in idx : j <= i

\* the outcome of the most recent login request, after the requests of log
LoginAfter(before, log) ==
    IF LoginsOf(log) = {} THEN before ELSE log[LastOf(LoginsOf(log))].status

\* whether a request has failed since the most recent login request
FailedAfter(before, log) ==
    IF LoginsOf(log) = {}
    THEN before \/ \E i \in DOMAIN log : log[i].status = "failed"
    ELSE \E i \in DOMAIN log : i > LastOf(LoginsOf(log)) /\ log[i].status = "failed"

\* what every operation leaves behind, from its name and its requests
Record(op, log) ==
    /\ crm_last' = [op |-> op, entered_logged_in |-> crm_logged_in, log |-> log]
    /\ crm_login' = LoginAfter(crm_login, log)
    /\ crm_failed' = FailedAfter(crm_failed, log)

\* crm.py 119-150: login() called on its own
CrmLogin ==
    /\ crm_pc = "open"
    /\ \E ok \in BOOLEAN :
          /\ crm_logged_in' = ok
          /\ Record("login", <<CrmRequest("login", "login", ok)>>)
    /\ UNCHANGED <<crm_pc, crm_files>>
    /\ UNCHANGED NotCrm

\* crm.py 152-165, 188-201, 238-253, 295-309, 316-329, 344-357, 367-380,
\* 391-403: the guard, then the data request; a failed request clears the flag
CrmFetch ==
    /\ crm_pc = "open"
    /\ \E op \in GuardedOps, login_ok, data_ok \in BOOLEAN :
          LET g == Guard(op, crm_logged_in, login_ok)
          IN  /\ crm_logged_in' = IF data_ok THEN g.flag ELSE FALSE
              /\ Record(op, g.log \o <<CrmRequest(op, "data", data_ok)>>)
    /\ UNCHANGED <<crm_pc, crm_files>>
    /\ UNCHANGED NotCrm

\* crm.py 444-479: the guard, fetch_vypiska_id (with its own guard), the
\* request for the list of files; the loop over the rows follows
CrmDownloadVypiskas ==
    /\ crm_pc = "open"
    /\ \E login1_ok, login2_ok, id_ok, has_row, list_ok \in BOOLEAN, rows \in 0..MaxFiles :
          LET g1 == Guard("download_vypiskas", crm_logged_in, login1_ok)
              g2 == Guard("fetch_vypiska_id", g1.flag, login2_ok)
              id_req == CrmRequest("fetch_vypiska_id", "data", id_ok)
              list_req == CrmRequest("download_vypiskas", "data", list_ok)
          IN  CASE ~id_ok ->
                     /\ crm_logged_in' = FALSE
                     /\ Record("download_vypiskas", g1.log \o g2.log \o <<id_req>>)
                     /\ UNCHANGED <<crm_pc, crm_files>>
                [] id_ok /\ ~has_row ->
                     /\ crm_logged_in' = g2.flag
                     /\ Record("download_vypiskas", g1.log \o g2.log \o <<id_req>>)
                     /\ UNCHANGED <<crm_pc, crm_files>>
                [] id_ok /\ has_row /\ ~list_ok ->
                     /\ crm_logged_in' = FALSE
                     /\ Record("download_vypiskas",
                               g1.log \o g2.log \o <<id_req, list_req>>)
                     /\ UNCHANGED <<crm_pc, crm_files>>
                [] id_ok /\ has_row /\ list_ok ->
                     /\ crm_logged_in' = g2.flag
                     /\ Record("download_vypiskas",
                               g1.log \o g2.log \o <<id_req, list_req>>)
                     /\ crm_files' = rows
                     /\ crm_pc' = IF rows > 0 THEN "vypiska_loop" ELSE "open"
    /\ UNCHANGED NotCrm

\* crm.py 423-442, called for a row at 480-482: the data request with no
\* guard before it; the loop ignores the value returned
CrmDownloadVypiska ==
    /\ crm_pc = "vypiska_loop"
    /\ \E data_ok \in BOOLEAN :
          /\ crm_logged_in' = IF data_ok THEN crm_logged_in ELSE FALSE
          /\ Record("download_vypiska",
                    <<CrmRequest("download_vypiska", "data", data_ok)>>)
    /\ crm_files' = crm_files - 1
    /\ crm_pc' = IF crm_files = 1 THEN "open" ELSE "vypiska_loop"
    /\ UNCHANGED NotCrm

\* crm.py 486-494
CrmExit ==
    /\ crm_pc = "open"
    /\ crm_logged_in' = FALSE
    /\ crm_pc' = "closed"
    /\ UNCHANGED <<crm_last, crm_login, crm_failed, crm_files>>
    /\ UNCHANGED NotCrm

\* crm.py 117: is_logged_in is False after __init__
InitCrm ==
    /\ today_year = BaseYear
    /\ clock_year = today_year
    /\ StoreIdle
    /\ MainIdle
    /\ SchemaIdle
    /\ RisksIdle
    /\ SummaryIdle
    /\ HistoryIdle
    /\ TokenIdle
    /\ crm_pc = "open"
    /\ crm_logged_in = FALSE
    /\ crm_last = NoOperation
    /\ crm_login = "none"
    /\ crm_failed = FALSE
    /\ crm_files = 0

NextCrm ==
    \/ CrmLogin
    \/ CrmFetch
    \/ CrmDownloadVypiskas
    \/ CrmDownloadVypiska
    \/ CrmExit

SpecCrm == InitCrm /\ [][NextCrm]_vars

LastRequestFailed ==
    /\ crm_last.log # <<>>
    /\ crm_last.log[Len(crm_last.log)].status = "failed"

\* C30: after a CRM fetch operation whose request failed is_logged_in is
\* false, and a fetch operation entered with the flag false issues a login
\* request before its data request; is_logged_in is true only when the most
\* recent login succeeded and no request failed since; it is false after
\* __exit__.
C30_SessionFlag ==
    /\ (crm_last.op \in FetchOps /\ LastRequestFailed /\ crm_pc # "closed")
          => ~crm_logged_in
    /\ (crm_last.op \in FetchOps /\ ~crm_last.entered_logged_in)
          => crm_last.log[1].event = "login"
    /\ crm_logged_in => (crm_login = "ok" /\ ~crm_failed)
    /\ crm_pc = "closed" => ~crm_logged_in

\* Inside the loop of download_vypiskas a download fails and the next
\* download_vypiska is entered with the flag false: it sends its data request
\* with no login before it.
C30_NoLoginInsideLoop ==
    /\ crm_last.op = "download_vypiska"
    /\ ~crm_last.entered_logged_in
    /\ crm_last.log[1].event = "data"

\* The same statement over the operations that begin with the guard.
C30_GuardedOperations ==
    /\ (crm_last.op \in FetchOps /\ LastRequestFailed /\ crm_pc # "closed")
          => ~crm_logged_in
    /\ (crm_last.op \in FetchOps \ {"download_vypiska"} /\ ~crm_last.entered_logged_in)
          => crm_last.log[1].event = "login"
    /\ crm_logged_in => (crm_login = "ok" /\ ~crm_failed)
    /\ crm_pc = "closed" => ~crm_logged_in

====
